---- MODULE Spec2Model ----
(***************************************************************************)
(* Model of jni/info_guardianproject_iocipher_Pipes.c: the JNI entry point *)
(* Java_info_guardianproject_iocipher_Pipes_createfifonative, which issues *)
(* eleven mkfifo(3) calls on literal paths, assigns each return value to   *)
(* the local `status`, never reads it, and returns void.                   *)
(*                                                                         *)
(* The filesystem is the shared state.  mkfifo is modelled by its POSIX    *)
(* contract (exclusive, atomic node creation; mode masked by the process   *)
(* umask; -1 and errno on failure).                                        *)
(***************************************************************************)
EXTENDS Integers, Sequences, FiniteSets, TLC

\* ------------------------------------------------------------ bounds
\* How many nodes may already occupy paths when the process starts.
MaxOccupied == 1
\* How many times one caller invokes the entry point.
MaxCalls == 2
\* Nodes already occupying paths in the specification with fairness.
FairOccupied == 0
\* Two concurrent callers: how many times the first invokes the entry point
\* (the second invokes it once).
ConcCalls == 1

\* ------------------------------------------------------------ <sys/stat.h>
S_IRUSR == 256
S_IWUSR == 128
S_IRGRP == 32
S_IWGRP == 16
S_IROTH == 4
S_IWOTH == 2
\* All nine permission bits (S_IRWXU | S_IRWXG | S_IRWXO).
ACCESSPERMS == 511

\* ------------------------------------------------------------ bit arithmetic
RECURSIVE BitAnd(_, _)
BitAnd(a, b) ==
    IF a = 0 \/ b = 0 THEN 0
    ELSE (IF a % 2 = 1 /\ b % 2 = 1 THEN 1 ELSE 0) + 2 * BitAnd(a \div 2, b \div 2)

\* The six flags are distinct bits, so their bitwise OR is their sum.
FifoModeOwnerOnly == S_IWUSR + S_IRUSR

\* The second argument of every mkfifo call.
FifoMode == S_IWUSR + S_IRUSR + S_IRGRP + S_IWGRP + S_IROTH + S_IWOTH

\* ------------------------------------------------------------ paths
DCIMDir == "/storage/emulated/legacy/DCIM"
AppDir == "/data/data/info.guardianproject.securecamtest"

DCIMPath == "/storage/emulated/legacy/DCIM/foo.jpg"

PipePaths ==
    << "/data/data/info.guardianproject.securecamtest/pipe0",
       "/data/data/info.guardianproject.securecamtest/pipe1",
       "/data/data/info.guardianproject.securecamtest/pipe2",
       "/data/data/info.guardianproject.securecamtest/pipe3",
       "/data/data/info.guardianproject.securecamtest/pipe4",
       "/data/data/info.guardianproject.securecamtest/pipe5",
       "/data/data/info.guardianproject.securecamtest/pipe6",
       "/data/data/info.guardianproject.securecamtest/pipe7",
       "/data/data/info.guardianproject.securecamtest/pipe8",
       "/data/data/info.guardianproject.securecamtest/pipe9" >>

\* The call list with a copy-and-paste slip: pipe1 twice, pipe2 never.
RequestsDuplicatePipe ==
    << [path |-> DCIMPath, mode |-> FifoMode] >>
        \o [i \in 1..Len(PipePaths) |->
              [path |-> PipePaths[IF i = 3 THEN 2 ELSE i], mode |-> FifoMode]]

\* The calls of the function body, in program order: (path, mode) of each.
Requests ==
    << [path |-> DCIMPath, mode |-> FifoMode] >>
        \o [i \in 1..Len(PipePaths) |-> [path |-> PipePaths[i], mode |-> FifoMode]]

N == Len(Requests)

RequestPaths == {Requests[i].path : i \in 1..N}

\* Paths of the same directories that the function never names.
OtherPaths == { "/data/data/info.guardianproject.securecamtest/other",
                "/storage/emulated/legacy/DCIM/other.jpg" }

AllPaths == RequestPaths \cup OtherPaths

Dirs == {DCIMDir, AppDir}

\* dirname(path)
Parent(path) ==
    IF path \in {DCIMPath, "/storage/emulated/legacy/DCIM/other.jpg"}
    THEN DCIMDir ELSE AppDir

\* ------------------------------------------------------------ filesystem
\* Condition of a directory as mkfifo meets it: usable; absent; no write
\* permission for the process; on a filesystem that refuses the creation for
\* another reason (read-only mount).
DirStates == {"ok", "missing", "nowrite", "rofs"}

Absent == [kind |-> "absent", mode |-> 0, data |-> "none"]

\* Nodes that may occupy a path before the process runs.
OccNodes ==
    { [kind |-> "fifo", mode |-> 384, data |-> "none"],
      [kind |-> "fifo", mode |-> 438, data |-> "none"],
      [kind |-> "file", mode |-> 420, data |-> "jpeg"],
      [kind |-> "file", mode |-> 384, data |-> "text"],
      [kind |-> "dir",  mode |-> 493, data |-> "none"] }

Umasks == {0, 18, 63}

\* mode & ~umask & ACCESSPERMS
ApplyUmask(mode, um) == BitAnd(BitAnd(mode, ACCESSPERMS), ACCESSPERMS - BitAnd(um, ACCESSPERMS))

\* mkfifo(path, mode) on filesystem fsys: the return value, the errno it sets
\* on failure, and the filesystem afterwards.  One atomic step.  The path is
\* resolved first (ENOENT), an existing last component is reported before
\* the directory's write permission or mount state is consulted (EEXIST),
\* and a node is created only when nothing fails.
mkfifo(fsys, dstate, um, path, mode) ==
    LET d == dstate[Parent(path)] IN
    IF d = "missing" THEN [ret |-> -1, errno |-> "ENOENT", fs |-> fsys]
    ELSE IF fsys[path].kind # "absent" THEN [ret |-> -1, errno |-> "EEXIST", fs |-> fsys]
    ELSE IF d = "nowrite" THEN [ret |-> -1, errno |-> "EACCES", fs |-> fsys]
    ELSE IF d = "rofs" THEN [ret |-> -1, errno |-> "EROFS", fs |-> fsys]
    ELSE [ret |-> 0, errno |-> "none",
          fs |-> [fsys EXCEPT ![path] =
                    [kind |-> "fifo", mode |-> ApplyUmask(mode, um), data |-> "none"]]]

\* ------------------------------------------------------------ state
Callers == {1, 2}

VARIABLES
    fs,        \* path -> node
    dirs,      \* directory -> condition
    umask,     \* the process's file mode creation mask
    invocations, \* per caller: how many times it will invoke the entry point
    pc,        \* per caller: 0 outside the function, i before call i, N+1 before return
    calls,     \* per caller: completed invocations
    status,    \* per caller: the local `int status`
    errno,     \* per caller: the thread's errno
    attempts,  \* per caller, per invocation: what each mkfifo call was given and returned
    returned   \* per caller: what the last invocation handed back to its caller

vars == << fs, dirs, umask, invocations, pc, calls, status, errno, attempts, returned >>

\* `status` is declared without initialiser and is dead outside the function.
Undef == "undef"

\* The function's return type is void: nothing is handed back.
Void == << >>

SubsetsUpTo(S, k) == {T \in SUBSET S : Cardinality(T) <= k}

InitFs(k) ==
    /\ dirs \in [Dirs -> DirStates]
    /\ umask \in Umasks
    /\ \E T \in SubsetsUpTo(AllPaths, k) :
         \E g \in [T -> OccNodes] :
            /\ \A p \in T : dirs[Parent(p)] # "missing"
            /\ fs = [p \in AllPaths |-> IF p \in T THEN g[p] ELSE Absent]

InitCallers(inv) ==
    /\ invocations = inv
    /\ pc = [t \in Callers |-> 0]
    /\ calls = [t \in Callers |-> 0]
    /\ status = [t \in Callers |-> Undef]
    /\ errno = [t \in Callers |-> "none"]
    /\ attempts = [t \in Callers |-> << >>]
    /\ returned = [t \in Callers |-> Void]

\* One caller, invoking the entry point repeatedly.
Init == InitFs(MaxOccupied) /\ InitCallers([t \in Callers |-> IF t = 1 THEN MaxCalls ELSE 0])

\* One caller, for the behaviours checked to their end.
InitFair == InitFs(FairOccupied) /\ InitCallers([t \in Callers |-> IF t = 1 THEN MaxCalls ELSE 0])

\* Two callers on one filesystem, none of the paths occupied beforehand.
InitConc == InitFs(0) /\ InitCallers([t \in Callers |-> IF t = 1 THEN ConcCalls ELSE 1])

\* ------------------------------------------------------------ actions
\* The managed runtime invokes the native method.
Call(t) ==
    /\ pc[t] = 0
    /\ calls[t] < invocations[t]
    /\ pc' = [pc EXCEPT ![t] = 1]
    /\ attempts' = [attempts EXCEPT ![t] = Append(@, << >>)]
    /\ UNCHANGED << fs, dirs, umask, invocations, calls, status, errno, returned >>

\* Variants of the control flow that the code does not have.
NextPcAbortOnFailure(i, r) == IF r = -1 THEN N + 1 ELSE i + 1

\* Where control goes after call i returned r: the next statement, always.
NextPc(i, r) == i + 1

\* Variants of the creation statement that the code does not have:
\* unlink(path) before mkfifo; chmod(path, mode) after it.
CreateAfterUnlink(fsys, dstate, um, req) ==
    mkfifo([fsys EXCEPT ![req.path] =
                IF dstate[Parent(req.path)] = "ok" /\ @.kind # "dir" THEN Absent ELSE @],
           dstate, um, req.path, req.mode)

CreateThenChmod(fsys, dstate, um, req) ==
    LET r == mkfifo(fsys, dstate, um, req.path, req.mode) IN
    [r EXCEPT !.fs = [r.fs EXCEPT ![req.path] =
        IF @.kind # "absent" /\ dstate[Parent(req.path)] # "missing"
        THEN [@ EXCEPT !.mode = BitAnd(req.mode, ACCESSPERMS)] ELSE @]]

\* The right-hand side of one statement: mkfifo on the request's literals.
Create(fsys, dstate, um, req) == mkfifo(fsys, dstate, um, req.path, req.mode)

\* status = mkfifo(Requests[pc].path, Requests[pc].mode);
Step(t) ==
    /\ pc[t] \in 1..N
    /\ LET i == pc[t]
           req == Requests[i]
           r == Create(fs, dirs, umask, req)
           c == Len(attempts[t])
       IN /\ fs' = r.fs
          /\ status' = [status EXCEPT ![t] = r.ret]
          /\ errno' = [errno EXCEPT ![t] = IF r.ret = -1 THEN r.errno ELSE @]
          /\ attempts' = [attempts EXCEPT ![t][c] =
                Append(@, [path |-> req.path, mode |-> req.mode,
                           status |-> r.ret, errno |-> r.errno,
                           seen |-> fs[req.path],
                           dir |-> dirs[Parent(req.path)]])]
          /\ pc' = [pc EXCEPT ![t] = NextPc(i, r.ret)]
    /\ UNCHANGED << dirs, umask, invocations, calls, returned >>

\* The closing brace: `status` goes out of scope, nothing is returned.
Return(t) ==
    /\ pc[t] = N + 1
    /\ pc' = [pc EXCEPT ![t] = 0]
    /\ calls' = [calls EXCEPT ![t] = @ + 1]
    /\ status' = [status EXCEPT ![t] = Undef]
    /\ returned' = [returned EXCEPT ![t] = Void]
    /\ UNCHANGED << fs, dirs, umask, invocations, errno, attempts >>

Next == \E t \in Callers : Call(t) \/ Step(t) \/ Return(t)

Spec == Init /\ [][Next]_vars

SpecConc == InitConc /\ [][Next]_vars

\* Once invoked, the native code runs to its end; whether the runtime invokes
\* it is the runtime's choice.
Fairness == \A t \in Callers : WF_vars(Step(t)) /\ WF_vars(Return(t))

FairSpec == InitFair /\ [][Next]_vars /\ Fairness

\* ------------------------------------------------------------ reading the log
\* The per-call results of caller t's invocation c, in the order obtained.
Log(t, c) == attempts[t][c]

\* The invocation caller t is in, or completed last.
Cur(t) == attempts[t][Len(attempts[t])]

\* Caller t has executed the last statement and is about to return.
AtReturn(t) == pc[t] = N + 1

\* A result says the call found its path absent in a usable directory.
Creatable(e) == e.seen = Absent /\ e.dir = "ok"

Failed(e) == e.status = -1

Created(e) == e.status = 0

\* ------------------------------------------------------------ C1
\* C1: non-aborting batch.  When the function reaches its end, every request
\* after a failed one has been attempted, in its place, and each such request
\* whose path was absent in a usable directory got status 0 and is a pipe.
C1_NonAbortingBatch ==
    \A t \in Callers :
        AtReturn(t) =>
            \A i \in 1..N :
                (i <= Len(Cur(t)) /\ Failed(Cur(t)[i])) =>
                    \A j \in (i + 1)..N :
                        /\ j <= Len(Cur(t))
                        /\ Cur(t)[j].path = Requests[j].path
                        /\ Creatable(Cur(t)[j]) =>
                              /\ Created(Cur(t)[j])
                              /\ fs[Requests[j].path].kind = "fifo"

\* The DCIM request failed and pipe0..pipe9 were all created after it.
C1_Witness ==
    /\ AtReturn(1)
    /\ Len(Cur(1)) = N
    /\ Failed(Cur(1)[1])
    /\ \A j \in 2..N : Created(Cur(1)[j]) /\ fs[Requests[j].path].kind = "fifo"

\* ------------------------------------------------------------ C2
\* C2: idempotence.  In a first invocation a request whose path is absent in
\* a usable directory gets status 0; in every later invocation the same
\* request gets -1 with EEXIST (the pipe is already there), and the step
\* leaves the whole filesystem as the first invocation left it.
C2_FirstCreates ==
    \A t \in Callers :
        Len(attempts[t]) >= 1 =>
            \A i \in 1..Len(Log(t, 1)) :
                Creatable(Log(t, 1)[i]) => Created(Log(t, 1)[i])

C2_SecondStep(t) ==
    LET i == pc[t] IN
    (/\ calls[t] >= 1
     /\ i \in 1..N
     /\ pc'[t] # i
     /\ Created(Log(t, 1)[i]))
        => /\ status'[t] = -1
           /\ errno'[t] = "EEXIST"
           /\ fs' = fs
           /\ fs[Requests[i].path] =
                [kind |-> "fifo", mode |-> fs[Requests[i].path].mode, data |-> "none"]

C3_ConflictDetection ==
    \A t \in Callers :
        \A c \in 1..Len(attempts[t]) :
            \A i \in 1..Len(Log(t, c)) :
                LET e == Log(t, c)[i] IN
                e.seen.kind = "file" =>
                    /\ Failed(e)
                    /\ e.errno = "EEXIST"
                    /\ fs[e.path] = e.seen

\* The function returned after meeting a regular file at one of its paths.
C3_Witness ==
    /\ calls[1] >= 1
    /\ \E i \in 1..N :
          /\ Log(1, 1)[i].seen.kind = "file"
          /\ Failed(Log(1, 1)[i])
          /\ fs[Requests[i].path].data = "jpeg"

\* ------------------------------------------------------------ C4
\* While the function runs, the statuses obtained so far are exactly those of
\* the requests before the current statement, in order; at its end there are
\* N of them.  (The part of C4 that is about the attempts.)
AttemptsInOrder ==
    \A t \in Callers :
        \A c \in 1..Len(attempts[t]) :
            /\ Len(Log(t, c)) = (IF c = Len(attempts[t]) /\ pc[t] # 0 THEN pc[t] - 1 ELSE N)
            /\ \A i \in 1..Len(Log(t, c)) : Log(t, c)[i].path = Requests[i].path

\* C4: the entry point returns a result list with exactly one result per
\* request: as long as the request list, with the paths in request order, the
\* attempts having been made in that order.
C4_ResultListReturned ==
    \A t \in Callers :
        (pc[t] = 0 /\ calls[t] >= 1) =>
            /\ AttemptsInOrder
            /\ Len(returned[t]) = N
            /\ \A i \in 1..Len(returned[t]) : returned[t][i].path = Requests[i].path

\* ------------------------------------------------------------ C5
\* What of a failed call is still to be had once the function has returned:
\* its result in what the function handed back, or its error number in the
\* thread's errno.
Observable(t, e) ==
    \/ \E k \in 1..Len(returned[t]) : returned[t][k] = e
    \/ errno[t] = e.errno

\* C5: per-request status is never discarded.  After the entry point has
\* returned, every failed creation attempt of that invocation is still
\* observable to the caller.
C5_StatusNeverDiscarded ==
    \A t \in Callers :
        (pc[t] = 0 /\ calls[t] >= 1) =>
            \A i \in 1..Len(Cur(t)) :
                Failed(Cur(t)[i]) => Observable(t, Cur(t)[i])

\* ------------------------------------------------------------ C6
\* A creation step of caller t at path p.
SteppedAt(t, p) ==
    /\ pc[t] \in 1..N
    /\ pc'[t] # pc[t]
    /\ Requests[pc[t]].path = p

C6_FrameStep ==
    /\ \A p \in AllPaths :
          fs'[p] # fs[p] =>
              /\ fs[p] = Absent
              /\ fs'[p].kind = "fifo"
              /\ p \in RequestPaths
              /\ \E t \in Callers : SteppedAt(t, p) /\ status'[t] = 0
    /\ \A t \in Callers :
          (pc[t] \in 1..N /\ pc'[t] # pc[t] /\ status'[t] = -1) => fs' = fs
    /\ dirs' = dirs /\ umask' = umask

\* C6: frame.  A step changes the filesystem only by adding a pipe node at the
\* path of the request it attempted, and only when that attempt succeeded;
\* every existing node keeps type, mode and contents; nothing is removed; a
\* failed attempt and a path outside the request list get no node.
C6_Frame == [][C6_FrameStep]_vars

\* The function returned having created a pipe and having failed on an
\* occupied path, whose node is still what the attempt saw.
C6_Witness ==
    /\ pc[1] = 0 /\ calls[1] = 1
    /\ \E i, j \in 1..N :
          /\ Created(Log(1, 1)[i])
          /\ Failed(Log(1, 1)[j])
          /\ Log(1, 1)[j].seen.kind \in {"file", "dir"}
          /\ fs[Requests[j].path] = Log(1, 1)[j].seen
    /\ \A p \in OtherPaths : fs[p] = Absent

\* ------------------------------------------------------------ C7
\* The results that callers obtained from statement i, over all invocations:
\* (caller, invocation) pairs.
ResultsAt(i) ==
    UNION { { << t, c >> : c \in {k \in 1..Len(attempts[t]) : i <= Len(Log(t, k))} }
            : t \in Callers }

Entry(x, i) == Log(x[1], x[2])[i]

Bit(x, b) == (x \div b) % 2 = 1

PermBits == {1, 2, 4, 8, 16, 32, 64, 128, 256}

\* mode is what `requested` leaves after the bits of um are cleared.
MaskedMode(mode, requested, um) ==
    /\ mode < 512
    /\ \A b \in PermBits : Bit(mode, b) <=> (Bit(requested, b) /\ ~Bit(um, b))

\* C7: two callers on the same paths.  At every path at most one caller gets
\* status 0; any other attempt at a path created by a caller gets -1 with
\* EEXIST; the path holds no node or exactly the one pipe node with the
\* requested mode (less the umask); when both have returned, each path in a
\* usable directory holds that pipe and exactly one caller created it.
C7_ConcurrentSamePath ==
    \A i \in 1..N :
        LET p == Requests[i].path
            rs == ResultsAt(i)
            won == {x \in rs : Created(Entry(x, i))}
        IN /\ \A x \in rs : Entry(x, i).path = p
           /\ Cardinality(won) <= 1
           /\ \A x \in rs \ won : Failed(Entry(x, i))
           /\ won # {} =>
                 /\ \A x \in rs \ won : Entry(x, i).errno = "EEXIST"
                 /\ fs[p].kind = "fifo"
           /\ fs[p] # Absent =>
                 /\ fs[p].kind = "fifo" /\ fs[p].data = "none"
                 /\ MaskedMode(fs[p].mode, 438, umask)
                 /\ Cardinality(won) = 1
           /\ ((\A t \in Callers : calls[t] = invocations[t]) /\ dirs[Parent(p)] = "ok") =>
                 Cardinality(won) = 1

\* Both callers have returned; each of them won the race at some path and
\* lost it at another.
C7_Witness ==
    /\ \A t \in Callers : calls[t] = invocations[t] /\ pc[t] = 0
    /\ \A t \in Callers :
          \E i, j \in 1..N :
              /\ Created(Log(t, 1)[i])
              /\ Failed(Log(t, 1)[j]) /\ Log(t, 1)[j].errno = "EEXIST"
    /\ \A p \in RequestPaths : fs[p].kind = "fifo"

\* ------------------------------------------------------------ C8
\* The outcome the claim assigns to a request from the filesystem state the
\* request meets.
Classified(e) ==
    IF e.dir = "missing" THEN "Failed(ParentDirectoryMissing)"
    ELSE IF e.seen.kind = "fifo" THEN "AlreadyExists"
    ELSE IF e.seen.kind \in {"file", "dir"} THEN "Failed(PathAlreadyExistsIncompatible)"
    ELSE IF e.dir = "nowrite" THEN "Failed(PermissionDenied)"
    ELSE IF e.dir = "rofs" THEN "Failed(IOError)"
    ELSE "Created"

\* All results of caller t, over all invocations.
AllResults(t) ==
    UNION { {Log(t, c)[i] : i \in 1..Len(Log(t, c))} : c \in 1..Len(attempts[t]) }

\* C8: each request gets exactly one outcome, the one that matches the state
\* it met.  What a request gets in the code is the value assigned to `status`
\* and the errno behind it, so requests that got the same have the same
\* outcome.
C8_OutcomeClassification ==
    \A t \in Callers :
        \A a, b \in AllResults(t) :
            (a.status = b.status /\ a.errno = b.errno) => Classified(a) = Classified(b)

\* ------------------------------------------------------------ C9
\* C9: permission mask.  Every request asks for 0666 (438: read and write for
\* owner, group and other, no execute bit); the node of every request that
\* got status 0 is a pipe whose mode is that mask with the bits of the umask
\* cleared, hence the mask itself under umask 0.
C9_PermissionMask ==
    /\ \A i \in 1..N :
          /\ Requests[i].mode = 438
          /\ ~Bit(Requests[i].mode, 1) /\ ~Bit(Requests[i].mode, 8) /\ ~Bit(Requests[i].mode, 64)
    /\ \A t \in Callers :
          \A e \in AllResults(t) :
              Created(e) =>
                  /\ e.mode = 438
                  /\ fs[e.path].kind = "fifo"
                  /\ MaskedMode(fs[e.path].mode, 438, umask)
                  /\ umask = 0 => fs[e.path].mode = 438

\* The function is at its end having created pipes under umask 0.
C9_Witness ==
    /\ umask = 0
    /\ AtReturn(1)
    /\ \E e \in AllResults(1) : Created(e) /\ fs[e.path].mode = 438

\* ------------------------------------------------------------ C10
\* At the end of the function the eleven requests, pairwise distinct, have
\* each been attempted once; if each found its path absent in a usable
\* directory, all eleven paths are pipes.
C10_AtReturn ==
    \A t \in Callers :
        AtReturn(t) =>
            /\ Len(Cur(t)) = 11
            /\ \A i, j \in 1..Len(Cur(t)) : i # j => Cur(t)[i].path # Cur(t)[j].path
            /\ \A i \in 1..N : \E j \in 1..Len(Cur(t)) : Cur(t)[j].path = Requests[i].path
            /\ Cur(t)[1].path = DCIMPath
            /\ \A k \in 1..Len(PipePaths) : Cur(t)[k + 1].path = PipePaths[k]
            /\ (\A j \in 1..Len(Cur(t)) : Creatable(Cur(t)[j])) =>
                  \A p \in RequestPaths : fs[p].kind = "fifo"

\* C10: synchronous completion.  An invocation, once begun, returns; and when
\* it reaches its end every request has been attempted exactly once.
C10_SynchronousCompletion ==
    /\ []C10_AtReturn
    /\ []<>(\A t \in Callers : pc[t] = 0)

\* All eleven paths were absent and creatable, and all are pipes at the end.
C10_Witness ==
    /\ AtReturn(1)
    /\ calls[1] = 0
    /\ \A j \in 1..N : Creatable(Cur(1)[j]) /\ Created(Cur(1)[j])
    /\ \A p \in RequestPaths : fs[p].kind = "fifo"

====
